---- MODULE Spec2Model ----
(***************************************************************************)
(* BPE merge-rule training (train_bpe.py): read_sentences, get_stats,      *)
(* merge_vocab and the driver learn_bpe.                                   *)
(*                                                                         *)
(* A Python str is a sequence of one-character strings.  A vocabulary (a   *)
(* Counter, i.e. an insertion-ordered dict) is a sequence of records       *)
(* [k |-> key, v |-> value] with pairwise distinct keys, in insertion      *)
(* order; the pair statistics (a dict) likewise.                           *)
(***************************************************************************)
EXTENDS Integers, Sequences, FiniteSets, TLC

VARIABLES corpus_file, corpus, num_merges, output_vocab,
          vocab, pairs, best_pair, bpe_merges, i, pc, err, call

vars == <<corpus_file, corpus, num_merges, output_vocab,
          vocab, pairs, best_pair, bpe_merges, i, pc, err, call>>

-----------------------------------------------------------------------------
(* Bounds *)

\* longest corpus text, in characters
MaxCorpusLen == 5
\* largest merge budget
MaxMerges == 3
\* most symbols in a vocabulary handed directly to get_stats / merge_vocab
MaxTotal == 3
\* largest occurrence count of an entry of such a vocabulary
MaxFreq == 2

-----------------------------------------------------------------------------
(* Characters *)

BS == "\\"
SP == " "
NL == "\n"

\* characters a corpus word is made of
Alphabet == {"x", "n", BS}
\* characters of the corpus text
CorpusChars == Alphabet \cup {SP, NL}

\* ' </w>' of line 23: the end-of-word symbol
EndMarker == <<"<", "/", "w", ">">>

\* str.isspace, the separator of str.split() and the complement of regex \S
IsSpace(c) == c \in {SP, NL}

\* ASCII letters among the characters that can occur
ASCIILETTERS == {"x", "n", "w"}

\* the replacement-template escapes of re among the characters that can
\* occur: \n is a newline, \\ a single backslash
ESCAPES == [c \in {"n", BS} |-> IF c = "n" THEN NL ELSE BS]

-----------------------------------------------------------------------------
(* str operations *)

RECURSIVE SplitFrom(_, _, _, _)
SplitFrom(s, j, cur, acc) ==
    IF j > Len(s)
    THEN IF cur = <<>> THEN acc ELSE Append(acc, cur)
    ELSE IF IsSpace(s[j])
         THEN SplitFrom(s, j + 1, <<>>, IF cur = <<>> THEN acc ELSE Append(acc, cur))
         ELSE SplitFrom(s, j + 1, Append(cur, s[j]), acc)

\* s.split(): the maximal runs of non-whitespace characters
split(s) == SplitFrom(s, 1, <<>>, <<>>)

RECURSIVE LStrip(_)
LStrip(s) == IF s # <<>> /\ IsSpace(Head(s)) THEN LStrip(Tail(s)) ELSE s

RECURSIVE RStrip(_)
RStrip(s) ==
    IF s # <<>> /\ IsSpace(s[Len(s)]) THEN RStrip(SubSeq(s, 1, Len(s) - 1)) ELSE s

\* s.strip()
strip(s) == RStrip(LStrip(s))

RECURSIVE LinesFrom(_, _, _, _)
LinesFrom(s, j, cur, acc) ==
    IF j > Len(s)
    THEN IF cur = <<>> THEN acc ELSE Append(acc, cur)
    ELSE IF s[j] = NL
         THEN LinesFrom(s, j + 1, <<>>, Append(acc, Append(cur, NL)))
         ELSE LinesFrom(s, j + 1, Append(cur, s[j]), acc)

\* iterating a text file: its lines, each with its terminating newline
Lines(s) == LinesFrom(s, 1, <<>>, <<>>)

RECURSIVE join(_, _)
\* sep.join(parts)
join(sep, parts) ==
    IF parts = <<>> THEN <<>>
    ELSE IF Len(parts) = 1 THEN parts[1]
    ELSE parts[1] \o sep \o join(sep, Tail(parts))

\* list(word): one symbol per character
list(word) == [j \in 1..Len(word) |-> <<word[j]>>]

-----------------------------------------------------------------------------
(* dict operations *)

Keys(d) == {d[j].k : j \in DOMAIN d}

IndexOf(d, key) == CHOOSE j \in DOMAIN d : d[j].k = key

\* d.get(key, default)
Get(d, key, default) == IF key \in Keys(d) THEN d[IndexOf(d, key)].v ELSE default

\* d[key] = value: an existing key keeps its position, a new key goes last
Put(d, key, value) ==
    IF key \in Keys(d)
    THEN [d EXCEPT ![IndexOf(d, key)].v = value]
    ELSE Append(d, [k |-> key, v |-> value])

RECURSIVE SumValues(_)
SumValues(d) == IF d = <<>> THEN 0 ELSE Head(d).v + SumValues(Tail(d))

-----------------------------------------------------------------------------
(* read_sentences *)

\* Tokenize without the end-of-word symbol appended
Tokenize_NoMarker(word) == join(<<SP>>, list(word))

\* ' '.join(list(word)) + ' </w>'
Tokenize(word) == join(<<SP>>, list(word)) \o <<SP>> \o EndMarker

RECURSIVE CountWords(_, _)
\* the loop over the words of one line: vocab[tokenized] += 1
CountWords(words, v) ==
    IF words = <<>> THEN v
    ELSE CountWords(Tail(words),
                    IF Head(words) # <<>>
                    THEN Put(v, Tokenize(Head(words)), Get(v, Tokenize(Head(words)), 0) + 1)
                    ELSE v)

RECURSIVE CountLines(_, _)
\* the loop over the lines of the file
CountLines(lines, v) ==
    IF lines = <<>> THEN v
    ELSE CountLines(Tail(lines),
                    IF strip(Head(lines)) = <<>>
                    THEN v
                    ELSE CountWords(split(strip(Head(lines))), v))

\* the Counter read_sentences builds from the text of the file
read_sentences(text) == CountLines(Lines(text), <<>>)

-----------------------------------------------------------------------------
(* get_stats *)

RECURSIVE StatsOfWord_SkipLast(_, _, _, _)
\* the inner loop stopping one position early, range(len(symbols) - 2)
StatsOfWord_SkipLast(symbols, freq, j, p) ==
    IF j > Len(symbols) - 2 THEN p
    ELSE StatsOfWord_SkipLast(symbols, freq, j + 1,
                              Put(p, <<symbols[j], symbols[j + 1]>>,
                                  Get(p, <<symbols[j], symbols[j + 1]>>, 0) + freq))

RECURSIVE StatsOfWord(_, _, _, _)
\* the inner loop: pairs[pair] = pairs.get(pair, 0) + freq at every position
StatsOfWord(symbols, freq, j, p) ==
    IF j > Len(symbols) - 1 THEN p
    ELSE StatsOfWord(symbols, freq, j + 1,
                     Put(p, <<symbols[j], symbols[j + 1]>>,
                         Get(p, <<symbols[j], symbols[j + 1]>>, 0) + freq))

RECURSIVE StatsFrom(_, _)
StatsFrom(v, p) ==
    IF v = <<>> THEN p
    ELSE StatsFrom(Tail(v), StatsOfWord(split(Head(v).k), Head(v).v, 1, p))

get_stats(v) == StatsFrom(v, <<>>)

-----------------------------------------------------------------------------
(* merge_vocab *)

RECURSIVE TemplateFrom(_, _, _)
TemplateFrom(t, j, out) ==
    IF j > Len(t) THEN [ok |-> TRUE, text |-> out]
    ELSE IF t[j] # BS THEN TemplateFrom(t, j + 1, Append(out, t[j]))
    ELSE IF j = Len(t) THEN [ok |-> FALSE, text |-> <<>>]
    ELSE IF t[j + 1] \in DOMAIN ESCAPES
         THEN TemplateFrom(t, j + 2, Append(out, ESCAPES[t[j + 1]]))
    ELSE IF t[j + 1] \in ASCIILETTERS THEN [ok |-> FALSE, text |-> <<>>]
    ELSE TemplateFrom(t, j + 2, out \o <<BS, t[j + 1]>>)

\* what pattern.sub makes of its replacement string: a backslash escape is
\* expanded, a backslash before another ASCII letter or at the end is an
\* re.error, a backslash before any other character stays
parse_template(repl) == TemplateFrom(repl, 1, <<>>)

\* (?<!\S) bigram (?!\S) matches at position j of word; re.escape makes the
\* bigram match literally
MatchAt(word, j, bigram) ==
    /\ j + Len(bigram) - 1 <= Len(word)
    /\ SubSeq(word, j, j + Len(bigram) - 1) = bigram
    /\ (j = 1 \/ IsSpace(word[j - 1]))
    /\ (j + Len(bigram) > Len(word) \/ IsSpace(word[j + Len(bigram)]))

RECURSIVE SubFrom(_, _, _, _, _)
SubFrom(text, word, bigram, j, out) ==
    IF j > Len(word) THEN out
    ELSE IF MatchAt(word, j, bigram)
         THEN SubFrom(text, word, bigram, j + Len(bigram), out \o text)
         ELSE SubFrom(text, word, bigram, j + 1, Append(out, word[j]))

\* pattern.sub(repl, word) with the expanded replacement text
sub(text, word, bigram) == SubFrom(text, word, bigram, 1, <<>>)

RECURSIVE MergeFrom(_, _, _, _)
\* the loop of merge_vocab: vocab_new[new_word] = freq
MergeFrom(text, bigram, v, vocab_new) ==
    IF v = <<>> THEN vocab_new
    ELSE MergeFrom(text, bigram, Tail(v),
                   Put(vocab_new, sub(text, Head(v).k, bigram), Head(v).v))

\* merge_vocab(pair, v): ok is FALSE when pattern.sub raises re.error
merge_vocab(pair, v) ==
    LET bigram == pair[1] \o <<SP>> \o pair[2]
        tmpl   == parse_template(pair[1] \o pair[2])
    IN  IF v # <<>> /\ ~tmpl.ok
        THEN [ok |-> FALSE, vocab |-> <<>>]
        ELSE [ok |-> TRUE, vocab |-> MergeFrom(tmpl.text, bigram, v, <<>>)]

-----------------------------------------------------------------------------
(* learn_bpe *)

\* min(pairs, key=pairs.get) in place of max
BestPair_Min(p) ==
    p[CHOOSE j \in DOMAIN p :
        /\ \A m \in DOMAIN p : p[m].v >= p[j].v
        /\ \A m \in 1..(j - 1) : p[m].v > p[j].v].k

\* max(pairs, key=pairs.get): the first key, in insertion order, whose value
\* no other value exceeds
BestPair(p) ==
    p[CHOOSE j \in DOMAIN p :
        /\ \A m \in DOMAIN p : p[m].v <= p[j].v
        /\ \A m \in 1..(j - 1) : p[m].v < p[j].v].k

\* f"{pair[0]} {pair[1]}\n"
RuleLine(pair) == pair[1] \o <<SP>> \o pair[2] \o <<NL>>

RECURSIVE TrainFrom(_, _, _)
TrainFrom(v, n, merges) ==
    IF n = 0 \/ get_stats(v) = <<>> THEN [ok |-> TRUE, merges |-> merges]
    ELSE LET best == BestPair(get_stats(v))
             r    == merge_vocab(best, v)
         IN  IF r.ok THEN TrainFrom(r.vocab, n - 1, Append(merges, best))
             ELSE [ok |-> FALSE, merges |-> Append(merges, best)]

\* the rules learn_bpe learns from a corpus with at least one word, as a
\* function of the corpus text and the budget; ok is FALSE when it raises
learn_bpe(text, n) == TrainFrom(read_sentences(text), n, <<>>)

RECURSIVE Strings(_, _)
Strings(chars, n) ==
    IF n = 0 THEN {<<>>}
    ELSE LET shorter == Strings(chars, n - 1)
         IN  shorter \cup {Append(s, c) : s \in {t \in shorter : Len(t) = n - 1}, c \in chars}

NoCall == [op |-> "none", vocab |-> <<>>, pair |-> <<>>, ok |-> TRUE, ret |-> <<>>]

Init ==
    /\ corpus_file \in {"ok", "absent", "unreadable"}
    /\ corpus \in IF corpus_file = "ok" THEN Strings(CorpusChars, MaxCorpusLen) ELSE {<<>>}
    /\ num_merges \in 0..MaxMerges
    /\ output_vocab = [opened |-> FALSE, lines |-> <<>>]
    /\ vocab = <<>>
    /\ pairs = <<>>
    /\ best_pair = <<>>
    /\ bpe_merges = <<>>
    /\ i = 0
    /\ pc = "start"
    /\ err = "none"
    /\ call = NoCall

\* ReadSentences without the check for an empty vocabulary of lines 30-31
ReadSentences_NoEmptyCheck ==
    /\ pc = "start"
    /\ IF corpus_file = "absent"
       THEN pc' = "failed" /\ err' = "FileNotFoundError" /\ vocab' = vocab
       ELSE IF corpus_file = "unreadable"
       THEN pc' = "failed" /\ err' = "RuntimeError" /\ vocab' = vocab
       ELSE pc' = "loop" /\ err' = err /\ vocab' = read_sentences(corpus)
    /\ UNCHANGED <<corpus_file, corpus, num_merges, output_vocab, pairs, best_pair,
                   bpe_merges, i, call>>

\* vocab = read_sentences(corpus_file), lines 75 and 12-33
ReadSentences ==
    /\ pc = "start"
    /\ IF corpus_file = "absent"
       THEN pc' = "failed" /\ err' = "FileNotFoundError" /\ vocab' = vocab
       ELSE IF corpus_file = "unreadable"
       THEN pc' = "failed" /\ err' = "RuntimeError" /\ vocab' = vocab
       ELSE IF read_sentences(corpus) = <<>>
       THEN pc' = "failed" /\ err' = "ValueError" /\ vocab' = vocab
       ELSE pc' = "loop" /\ err' = err /\ vocab' = read_sentences(corpus)
    /\ UNCHANGED <<corpus_file, corpus, num_merges, output_vocab, pairs, best_pair,
                   bpe_merges, i, call>>

\* one pass of the loop body that selects and merges a pair, lines 81-91
MergeStep ==
    /\ pc = "loop"
    /\ i < num_merges
    /\ get_stats(vocab) # <<>>
    /\ pairs' = get_stats(vocab)
    /\ best_pair' = BestPair(pairs')
    /\ bpe_merges' = Append(bpe_merges, best_pair')
    /\ LET r == merge_vocab(best_pair', vocab)
       IN  IF r.ok
           THEN vocab' = r.vocab /\ i' = i + 1 /\ pc' = pc /\ err' = err
           ELSE vocab' = vocab /\ i' = i /\ pc' = "failed" /\ err' = "re.error"
    /\ UNCHANGED <<corpus_file, corpus, num_merges, output_vocab, call>>

\* the pass that finds no pair and breaks, lines 81-84
EarlyStop ==
    /\ pc = "loop"
    /\ i < num_merges
    /\ get_stats(vocab) = <<>>
    /\ pairs' = <<>>
    /\ pc' = "persist"
    /\ UNCHANGED <<corpus_file, corpus, num_merges, output_vocab, vocab, best_pair,
                   bpe_merges, i, err, call>>

\* range(num_merges) is exhausted, line 80
BudgetDone ==
    /\ pc = "loop"
    /\ i >= num_merges
    /\ pc' = "persist"
    /\ UNCHANGED <<corpus_file, corpus, num_merges, output_vocab, vocab, pairs, best_pair,
                   bpe_merges, i, err, call>>

\* saving the rules, lines 97-102
Persist ==
    /\ pc = "persist"
    /\ output_vocab' = [opened |-> TRUE,
                        lines |-> [j \in 1..Len(bpe_merges) |-> RuleLine(bpe_merges[j])]]
    /\ pc' = "done"
    /\ UNCHANGED <<corpus_file, corpus, num_merges, vocab, pairs, best_pair,
                   bpe_merges, i, err, call>>

Next == ReadSentences \/ MergeStep \/ EarlyStop \/ BudgetDone \/ Persist

Spec == Init /\ [][Next]_vars

-----------------------------------------------------------------------------
(* get_stats and merge_vocab called directly on a given vocabulary *)

\* the symbols of the vocabularies handed to the two functions: a
\* character, a fused symbol whose text overlaps it, and a backslash
Syms == {<<"x">>, <<"x", "x">>, <<BS>>}

RECURSIVE SymSeqs(_)
\* the non-empty symbol sequences of at most n symbols
SymSeqs(n) ==
    IF n = 0 THEN {}
    ELSE LET shorter == SymSeqs(n - 1)
         IN  {<<s>> : s \in Syms} \cup shorter
             \cup {Append(e, s) : e \in {t \in shorter : Len(t) = n - 1}, s \in Syms}

RECURSIVE Vocabs(_)
\* the vocabularies of at most n symbols in all
Vocabs(n) ==
    {<<>>} \cup
    UNION {{<<[k |-> join(<<SP>>, e), v |-> f]>> \o r :
              f \in 1..MaxFreq,
              r \in {t \in Vocabs(n - Len(e)) : join(<<SP>>, e) \notin Keys(t)}} :
           e \in SymSeqs(n)}

FnInit ==
    /\ corpus_file = "ok"
    /\ corpus = <<>>
    /\ num_merges = 0
    /\ output_vocab = [opened |-> FALSE, lines |-> <<>>]
    /\ vocab = <<>>
    /\ pairs = <<>>
    /\ best_pair = <<>>
    /\ bpe_merges = <<>>
    /\ i = 0
    /\ pc = "idle"
    /\ err = "none"
    /\ call \in {[op |-> "input", vocab |-> v, pair |-> <<>>, ok |-> TRUE, ret |-> <<>>] :
                   v \in Vocabs(MaxTotal)}

\* get_stats(vocab), lines 36-46
CallGetStats ==
    /\ call.op = "input"
    /\ call' = [call EXCEPT !.op = "get_stats", !.ret = get_stats(call.vocab)]
    /\ UNCHANGED <<corpus_file, corpus, num_merges, output_vocab, vocab, pairs, best_pair,
                   bpe_merges, i, pc, err>>

\* merge_vocab(pair, vocab), lines 49-67
CallMergeVocab ==
    /\ call.op = "input"
    /\ \E s1 \in Syms, s2 \in Syms :
          LET r == merge_vocab(<<s1, s2>>, call.vocab)
          IN  call' = [call EXCEPT !.op = "merge_vocab", !.pair = <<s1, s2>>,
                                   !.ok = r.ok, !.ret = r.vocab]
    /\ UNCHANGED <<corpus_file, corpus, num_merges, output_vocab, vocab, pairs, best_pair,
                   bpe_merges, i, pc, err>>

FnNext == CallGetStats \/ CallMergeVocab

FnSpec == FnInit /\ [][FnNext]_vars

-----------------------------------------------------------------------------
(* Reference definitions the properties are stated with *)

RECURSIVE RefMerge(_, _, _)
\* the left-to-right scan over a symbol sequence that replaces each
\* non-overlapping adjacent s1 s2 by the one symbol s1+s2
RefMerge(symbols, s1, s2) ==
    IF symbols = <<>> THEN <<>>
    ELSE IF Len(symbols) >= 2 /\ symbols[1] = s1 /\ symbols[2] = s2
         THEN <<s1 \o s2>> \o RefMerge(Tail(Tail(symbols)), s1, s2)
         ELSE <<Head(symbols)>> \o RefMerge(Tail(symbols), s1, s2)

RECURSIVE NonOverlapping(_, _, _)
\* the number of non-overlapping left-to-right occurrences of s1 s2
NonOverlapping(symbols, s1, s2) ==
    IF Len(symbols) < 2 THEN 0
    ELSE IF symbols[1] = s1 /\ symbols[2] = s2
         THEN 1 + NonOverlapping(Tail(Tail(symbols)), s1, s2)
         ELSE NonOverlapping(Tail(symbols), s1, s2)

\* the number of positions at which s1 is directly followed by s2
Adjacent(symbols, s1, s2) ==
    Cardinality({j \in 1..(Len(symbols) - 1) : symbols[j] = s1 /\ symbols[j + 1] = s2})

RECURSIVE Weighted(_, _, _, _)
\* the sum over the entries of v of Occ(symbols, s1, s2) * count
Weighted(Occ(_, _, _), v, s1, s2) ==
    IF v = <<>> THEN 0
    ELSE Occ(split(Head(v).k), s1, s2) * Head(v).v + Weighted(Occ, Tail(v), s1, s2)

\* every symbol of a vocabulary
SymbolsOf(v) == UNION {{split(v[j].k)[m] : m \in DOMAIN split(v[j].k)} : j \in DOMAIN v}

\* the text of a symbol sequence without the separators
Concat(symbols) == join(<<>>, symbols)

\* t ends with the text suffix
EndsWith(t, suffix) ==
    /\ Len(t) >= Len(suffix)
    /\ SubSeq(t, Len(t) - Len(suffix) + 1, Len(t)) = suffix

-----------------------------------------------------------------------------
(* Properties of get_stats and merge_vocab, under FnSpec *)

\* C1: merge_vocab returns, for each entry, exactly the symbol sequence of
\* the reference left-to-right scan with the plain concatenation s1+s2 as
\* the fused symbol, also for symbols holding a backslash, and leaves an
\* entry without the pair unchanged.
C1_MergeIsReferenceScan ==
    call.op = "merge_vocab" =>
        /\ call.ok
        /\ \A j \in DOMAIN call.vocab :
              LET symbols == split(call.vocab[j].k)
                  wanted  == RefMerge(symbols, call.pair[1], call.pair[2])
              IN  /\ \E m \in DOMAIN call.ret : split(call.ret[m].k) = wanted
                  /\ wanted = symbols => call.vocab[j].k \in Keys(call.ret)
        /\ \A m \in DOMAIN call.ret :
              \E j \in DOMAIN call.vocab :
                 split(call.ret[m].k) =
                    RefMerge(split(call.vocab[j].k), call.pair[1], call.pair[2])

\* C4 as stated: the frequency get_stats reports for a pair is the sum over
\* the entries of (non-overlapping left-to-right occurrences) * count.
C4_StatsCountNonOverlapping ==
    call.op = "get_stats" =>
        \A s1 \in SymbolsOf(call.vocab), s2 \in SymbolsOf(call.vocab) :
            Get(call.ret, <<s1, s2>>, 0) = Weighted(NonOverlapping, call.vocab, s1, s2)

\* C4 amended: the frequency get_stats reports for a pair is the sum over
\* the entries of (positions at which the pair is adjacent, overlapping
\* ones included) * count, and exactly the pairs with a positive sum are
\* reported: 'a a a' with count c gives (a, a) the frequency 2c.
C4_StatsCountEveryAdjacency ==
    call.op = "get_stats" =>
        /\ \A s1 \in SymbolsOf(call.vocab), s2 \in SymbolsOf(call.vocab) :
              /\ Get(call.ret, <<s1, s2>>, 0) = Weighted(Adjacent, call.vocab, s1, s2)
              /\ <<s1, s2>> \in Keys(call.ret) <=> Weighted(Adjacent, call.vocab, s1, s2) > 0
        /\ \A m \in DOMAIN call.ret :
              call.ret[m].k[1] \in SymbolsOf(call.vocab) /\ call.ret[m].k[2] \in SymbolsOf(call.vocab)

\* get_stats has run on an entry with a run of three equal symbols and
\* count 2, and reports the pair of that symbol with frequency 4
C4_Witness ==
    /\ call.op = "get_stats"
    /\ call.vocab = <<[k |-> <<"x", SP, "x", SP, "x">>, v |-> 2]>>
    /\ Get(call.ret, <<(<<"x">>), (<<"x">>)>>, 0) = 4

\* C5: entries that are identical after rewriting become one key whose
\* count is the sum of the counts of the entries rewritten to it, so the
\* counts of the returned vocabulary sum to those of the input.
C5_MergeSumsCounts ==
    (call.op = "merge_vocab" /\ call.ok) =>
        LET text   == parse_template(call.pair[1] \o call.pair[2]).text
            bigram == call.pair[1] \o <<SP>> \o call.pair[2]
            RewrittenTo(key) ==
                {j \in DOMAIN call.vocab : sub(text, call.vocab[j].k, bigram) = key}
            Total[js \in SUBSET DOMAIN call.vocab] ==
                IF js = {} THEN 0
                ELSE LET j == CHOOSE m \in js : TRUE
                     IN  call.vocab[j].v + Total[js \ {j}]
        IN  /\ \A m \in DOMAIN call.ret :
                  call.ret[m].v = Total[RewrittenTo(call.ret[m].k)]
            /\ SumValues(call.ret) = SumValues(call.vocab)

-----------------------------------------------------------------------------
(* Properties of a training run, under Spec *)

\* the states in which learn_bpe holds a vocabulary
Training == pc \in {"loop", "persist", "done"}

\* the words of the corpus text
Words == split(corpus)

\* C2 as stated: every entry of every vocabulary of a run ends with the
\* symbol '</w>' and holds it exactly once; no merge fuses the end-marker
\* into another symbol and no fused symbol equals it.
C2_EndMarkerStaysASymbol ==
    Training =>
        /\ \A j \in DOMAIN vocab :
              LET symbols == split(vocab[j].k)
              IN  /\ symbols # <<>>
                  /\ symbols[Len(symbols)] = EndMarker
                  /\ Cardinality({m \in DOMAIN symbols : symbols[m] = EndMarker}) = 1
        /\ \A m \in DOMAIN bpe_merges :
              /\ bpe_merges[m][1] # EndMarker
              /\ bpe_merges[m][2] # EndMarker
              /\ bpe_merges[m][1] \o bpe_merges[m][2] # EndMarker

\* C2 amended: every entry of every vocabulary of a run has a last symbol
\* that is the end-marker or a fused symbol ending with the text '</w>'
\* (a merge may fuse the end-marker into the symbol before it).
C2_EntriesEndWithMarkerText ==
    Training =>
        \A j \in DOMAIN vocab :
            LET symbols == split(vocab[j].k)
            IN  /\ symbols # <<>>
                /\ EndsWith(symbols[Len(symbols)], EndMarker)
                /\ EndsWith(vocab[j].k, EndMarker)

\* a merge has fused the end-marker into a longer last symbol
C2_Witness ==
    /\ Training
    /\ bpe_merges # <<>>
    /\ \E j \in DOMAIN vocab :
          LET symbols == split(vocab[j].k)
          IN  /\ symbols[Len(symbols)] # EndMarker
              /\ EndsWith(symbols[Len(symbols)], EndMarker)

\* the corpus texts with the words of the corpus in another order
Reordered ==
    {join(<<SP>>, [j \in DOMAIN Words |-> Words[f[j]]]) :
        f \in {g \in [DOMAIN Words -> DOMAIN Words] :
                 \A a \in DOMAIN Words, b \in DOMAIN Words : g[a] = g[b] => a = b}}

\* C3: a corpus with the same words in another order, trained with the same
\* budget, learns the identical sequence of rules.
C3_RulesIndependentOfWordOrder ==
    pc = "done" =>
        \A text \in Reordered : learn_bpe(text, num_merges).merges = bpe_merges

\* C6: a pass of the loop that finds pairs appends one rule, a pair of the
\* statistics of the vocabulary it started with whose frequency no other
\* pair exceeds; its two symbols are kept apart, not fused; the rules
\* learned before stay as they are.
C6_AppendsAMostFrequentPair ==
    [][(pc = "loop" /\ i < num_merges /\ get_stats(vocab) # <<>>) =>
          LET stats == get_stats(vocab)
              rule  == bpe_merges'[Len(bpe_merges')]
          IN  /\ Len(bpe_merges') = Len(bpe_merges) + 1
              /\ SubSeq(bpe_merges', 1, Len(bpe_merges)) = bpe_merges
              /\ Len(rule) = 2
              /\ rule \in Keys(stats)
              /\ \A m \in DOMAIN stats : stats[m].v <= Get(stats, rule, 0)
              /\ \E j \in DOMAIN vocab : Adjacent(split(vocab[j].k), rule[1], rule[2]) > 0
              /\ pairs' = stats]_vars

\* a rule was chosen among pairs of different frequencies, and it is not
\* the pair met first
C6_Witness ==
    /\ pc \in {"loop", "persist", "done"}
    /\ bpe_merges # <<>>
    /\ \E m \in DOMAIN pairs : pairs[m].v < Get(pairs, bpe_merges[Len(bpe_merges)], 0)
    /\ pairs[1].k # bpe_merges[Len(bpe_merges)]
    /\ best_pair = bpe_merges[Len(bpe_merges)]

\* C7: after merging the selected pair P the vocabulary has no adjacent
\* occurrence of P (its statistics hold no frequency for P), and every
\* entry is shorter by one symbol for each occurrence replaced.
C7_SelectedPairIsGone ==
    [][(pc = "loop" /\ pc' = "loop" /\ Len(bpe_merges') = Len(bpe_merges) + 1) =>
          LET P      == bpe_merges'[Len(bpe_merges')]
              text   == parse_template(P[1] \o P[2]).text
              bigram == P[1] \o <<SP>> \o P[2]
          IN  /\ Get(get_stats(vocab'), P, 0) = 0
              /\ \A j \in DOMAIN vocab :
                    /\ sub(text, vocab[j].k, bigram) \in Keys(vocab')
                    /\ Len(split(sub(text, vocab[j].k, bigram)))
                          = Len(split(vocab[j].k))
                             - NonOverlapping(split(vocab[j].k), P[1], P[2])]_vars

\* C8: a run on a corpus with at least one word ends without error, with
\* the budget used up or, earlier, with no pair left; the rules learned are
\* then written out; with budget 0 no rule is learned and the vocabulary is
\* the initial one.
C8_TerminatesWithMinRules ==
    (corpus_file = "ok" /\ Words # <<>>) =>
        /\ pc # "failed"
        /\ Len(bpe_merges) <= num_merges
        /\ pc \in {"persist", "done"} =>
              /\ \/ Len(bpe_merges) = num_merges
                 \/ Len(bpe_merges) < num_merges /\ get_stats(vocab) = <<>>
              /\ num_merges = 0 => bpe_merges = <<>> /\ vocab = read_sentences(corpus)
        /\ pc = "done" =>
              /\ output_vocab.opened
              /\ output_vocab.lines = [j \in DOMAIN bpe_merges |-> RuleLine(bpe_merges[j])]

\* C9: an absent corpus fails with the not-found error, an unreadable one
\* with the read error, one with no word with the empty-corpus error; a
\* failed run has not opened the output, and once the output is opened no
\* error follows.
C9_FailsBeforeOutput ==
    /\ (pc # "start" /\ corpus_file = "absent") =>
           pc = "failed" /\ err = "FileNotFoundError"
    /\ (pc # "start" /\ corpus_file = "unreadable") =>
           pc = "failed" /\ err = "RuntimeError"
    /\ (pc # "start" /\ corpus_file = "ok" /\ \A j \in DOMAIN corpus : IsSpace(corpus[j])) =>
           pc = "failed" /\ err = "ValueError"
    /\ pc = "failed" => ~output_vocab.opened /\ err # "none"
    /\ output_vocab.opened => pc = "done" /\ err = "none"

\* a corpus of blank lines only has failed as empty, the output unopened
C9_Witness ==
    /\ pc = "failed"
    /\ err = "ValueError"
    /\ Len(corpus) >= 3
    /\ \E j \in DOMAIN corpus : corpus[j] = SP
    /\ \E j \in DOMAIN corpus : corpus[j] = NL
    /\ ~output_vocab.opened

\* C10: in every vocabulary of a run the counts sum to the number of words
\* of the corpus and the symbols of each entry concatenate to a corpus word
\* followed by '</w>'.
C10_CountsAndTextPreserved ==
    Training =>
        /\ SumValues(vocab) = Len(Words)
        /\ \A j \in DOMAIN vocab :
              \E m \in DOMAIN Words : Concat(split(vocab[j].k)) = Words[m] \o EndMarker

====
